---- MODULE Spec2Model ----
(***************************************************************************)
(* Model of the structured logger (package logger) and of the Confluence   *)
(* webhook handler (package cmd) of sarama-ai.                              *)
(*                                                                         *)
(* The logger part models Go slices as (backing array, length) pairs over  *)
(* a heap of arrays, so that `append` behaves as the Go runtime's append:  *)
(* it writes in place when the backing array has spare capacity and        *)
(* allocates a fresh array only when it has none.  Goroutines interleave   *)
(* at the statements of zapLogger.log.                                     *)
(***************************************************************************)
EXTENDS Integers, Sequences, FiniteSets, TLC

\* ------------------------------------------------------------------ bounds
\* Spec: loggers created and logging calls made by the single goroutine.
MaxLoggers == 4
MaxCalls == 2
\* SpecLevels: the same, with New, the global logger and every level.
MaxLevelLoggers == 2
MaxLevelCalls == 1
\* SpecConc: the same, with two goroutines.
MaxConcLoggers == 3
MaxConcCalls == 2
\* SpecHttp: requests handled.
MaxRequests == 2

\* --------------------------------------------------------------- constants
DebugLevel == 0
InfoLevel == 1
WarnLevel == 2
ErrorLevel == 3
FatalLevel == 4
DefaultCallerSkip == 2
ExitStatus == 1
StatusOK == 200
StatusBadRequest == 400
StatusMethodNotAllowed == 405

Levels == DebugLevel..FatalLevel

\* Level is an int: New accepts the five named levels and any other value,
\* of which the model takes the one just above FatalLevel.
NewLevels == Levels \cup {FatalLevel + 1}

levelNames ==
  [l \in Levels |->
     CASE l = DebugLevel -> "DEBUG"
       [] l = InfoLevel  -> "INFO"
       [] l = WarnLevel  -> "WARN"
       [] l = ErrorLevel -> "ERROR"
       [] l = FatalLevel -> "FATAL"]

\* The goroutines that use the logger.
Threads == {"g1", "g2"}

\* The goroutine of the single-goroutine specifications.
Main == "g1"

\* Keys a caller may give to WithField, and the key sequences it may give
\* to WithFields and to a logging call (duplicate keys included).
Keys == {"k1"}
WithFieldsArgs == {<<>>, <<"k1", "k1">>}
CallArgs == {<<>>, <<"k2">>}

\* The writers a logger can be given: os.Stdout (New) or a caller's writer.
Stdout == "stdout"
Writers == {Stdout, "buf"}

VARIABLES
  loggers,       \* sequence of zapLogger structs (index = identity)
  heap,          \* backing arrays of []Field slices: array id -> cells
  mu,            \* zapLogger.mu of each logger: holder goroutine or "free"
  globalLogger,  \* package variable globalLogger (a logger id)
  th,            \* per goroutine: position inside a logging call and locals
  sink,          \* per writer, in order: the call of each line written to
                 \* it and whether its write overlapped another write
  stdlog,        \* the lines printed through the std logger, with their call
  nCalls,        \* number of logging calls made so far
  exited,        \* the process has terminated (os.Exit)
  exitCode,      \* status given to os.Exit
  req,           \* HTTP: request being handled by handleConfluenceWebhook
  resp,          \* HTTP: response written so far
  hpc,           \* HTTP: position inside the handler
  nReqs          \* HTTP: number of requests received so far

logvars == <<loggers, heap, mu, globalLogger, th, sink, stdlog, nCalls, exited, exitCode>>
httpvars == <<req, resp, hpc, nReqs>>
vars == <<loggers, heap, mu, globalLogger, th, sink, stdlog, nCalls, exited, exitCode,
          req, resp, hpc, nReqs>>

\* ------------------------------------------------------------ Field, slice
\* A Field{Key, Value}.  The value records where the field was given: by the
\* derivation that created logger `id` ("with") or by logging call `id`
\* ("call"), and its position in the given sequence.
Field(k, src, id, idx) == [Key |-> k, Value |-> [src |-> src, id |-> id, idx |-> idx]]
ZeroField == Field("", "nil", 0, 0)

\* make([]Field, 0): no backing array, length 0, capacity 0.
EmptySlice == [arr |-> 0, len |-> 0]

HeapIds == 1..(MaxLoggers + Cardinality(Threads))

Cap(h, s) == IF s.arr = 0 THEN 0 ELSE Len(h[s.arr])

\* The elements a slice shows: cells 1..len of its backing array.
View(h, s) == IF s.arr = 0 THEN <<>> ELSE SubSeq(h[s.arr], 1, s.len)

Zeros(n) == [i \in 1..n |-> ZeroField]

RECURSIVE GrowLoop(_, _)
GrowLoop(newcap, newLen) ==
  LET c == newcap + ((newcap + 3 * 256) \div 4)
  IN IF c >= newLen THEN c ELSE GrowLoop(c, newLen)

\* runtime.nextslicecap: the capacity append gives a slice that must grow.
\* (For 32-byte Fields every capacity up to 16 is a size class of its own,
\* so the allocator's rounding leaves these capacities as they are.)
nextslicecap(newLen, oldCap) ==
  IF newLen > 2 * oldCap THEN newLen
  ELSE IF oldCap < 256 THEN 2 * oldCap
  ELSE GrowLoop(oldCap, newLen)

FreeArr(h) == CHOOSE a \in HeapIds : h[a] = <<>> /\ \A b \in HeapIds : b < a => h[b] # <<>>

\* Go's append(s, xs...): the new heap and the resulting slice.
GoAppend(h, s, xs) ==
  LET n == s.len + Len(xs)
  IN IF n <= Cap(h, s)
     THEN [heap |-> IF Len(xs) = 0 THEN h
                    ELSE [h EXCEPT ![s.arr] =
                            [i \in 1..Len(@) |->
                               IF i > s.len /\ i <= n THEN xs[i - s.len] ELSE @[i]]],
           slice |-> [arr |-> s.arr, len |-> n]]
     ELSE LET a == FreeArr(h)
              c == nextslicecap(n, Cap(h, s))
          IN [heap |-> [h EXCEPT ![a] = View(h, s) \o xs \o Zeros(c - n)],
              slice |-> [arr |-> a, len |-> n]]

\* ----------------------------------------------------------------- loggers
LoggerIds == 1..Len(loggers)

\* The zapLogger struct New / NewWithWriter build.  parent, atDerive and
\* chain are history fields: the logger it was derived from, the fields it
\* showed when derived (its base's fields then the given ones), and the fields
\* the successive derivations gave, in order.
NewStruct(level, output) ==
  [level |-> level, output |-> output, fields |-> EmptySlice,
   caller |-> TRUE, callerSkip |-> DefaultCallerSkip,
   parent |-> 0, atDerive |-> <<>>, chain |-> <<>>]

Fields(l) == View(heap, loggers[l].fields)

\* ------------------------------------------------------------- goroutines
\* A frame of a goroutine's call stack: the file path and the qualified
\* function name, both as their components, and the line of the call.
Frame(file, line, fn) == [file |-> file, line |-> line, fn |-> fn]

\* The stack of application code about to call into the logger.
UserStack ==
  <<Frame(<<"go", "src", "runtime", "proc.go">>, "250", <<"runtime", "main">>),
    Frame(<<"app", "cmd", "server.go">>, "42", <<"cmd", "handler">>)>>

LoggerFile == <<"app", "logger", "logger.go">>

\* The frame of a level method of zapLogger, at its call of l.log.
MethodFrame(level) ==
  CASE level = DebugLevel -> Frame(LoggerFile, "86", <<"logger", "(*zapLogger)", "Debug">>)
    [] level = InfoLevel  -> Frame(LoggerFile, "93", <<"logger", "(*zapLogger)", "Info">>)
    [] level = WarnLevel  -> Frame(LoggerFile, "100", <<"logger", "(*zapLogger)", "Warn">>)
    [] level = ErrorLevel -> Frame(LoggerFile, "107", <<"logger", "(*zapLogger)", "Error">>)
    [] level = FatalLevel -> Frame(LoggerFile, "113", <<"logger", "(*zapLogger)", "Fatal">>)

LogFrame == Frame(LoggerFile, "153", <<"logger", "(*zapLogger)", "log">>)

NoLine == [level |-> "", msg |-> "", tokens |-> <<>>]

NoCaller == [file |-> "", line |-> "", fn |-> ""]

Idle ==
  [pc |-> "idle", recv |-> 0, level |-> DebugLevel, cf |-> <<>>, stack |-> <<>>,
   all |-> EmptySlice, line |-> NoLine, id |-> 0,
   failed |-> FALSE, tries |-> 0, torn |-> FALSE]

WithFieldsOf(ks, id) == [i \in 1..Len(ks) |-> Field(ks[i], "with", id, i)]
CallFieldsOf(ks, id) == [i \in 1..Len(ks) |-> Field(ks[i], "call", id, i)]

Running == ~exited

\* ------------------------------------------------------- New, derivations
\* New(level): a logger writing to os.Stdout.
New(t, level) ==
  /\ Running /\ th[t].pc = "idle"
  /\ loggers' = Append(loggers, NewStruct(level, Stdout))
  /\ mu' = Append(mu, "free")
  /\ UNCHANGED <<heap, globalLogger, th, sink, stdlog, nCalls, exited, exitCode, httpvars>>

\* NewWithWriter(level, output).
NewWithWriter(t, level, output) ==
  /\ Running /\ th[t].pc = "idle"
  /\ loggers' = Append(loggers, NewStruct(level, output))
  /\ mu' = Append(mu, "free")
  /\ UNCHANGED <<heap, globalLogger, th, sink, stdlog, nCalls, exited, exitCode, httpvars>>

\* The struct WithField / WithFields build from receiver l and the appended
\* slice: level, output, caller and callerSkip copied, a zero mutex.
Derived(l, slice, xs) ==
  [level |-> loggers[l].level, output |-> loggers[l].output, fields |-> slice,
   caller |-> loggers[l].caller, callerSkip |-> loggers[l].callerSkip,
   parent |-> l, atDerive |-> Fields(l) \o xs,
   chain |-> loggers[l].chain \o xs]

\* WithField as it would be if it stored the appended slice in the receiver.
WithFieldStoring(t, l, key) ==
  /\ Running /\ th[t].pc = "idle"
  /\ l \in LoggerIds
  /\ LET xs == WithFieldsOf(<<key>>, Len(loggers) + 1)
         r == GoAppend(heap, loggers[l].fields, xs)
     IN /\ heap' = r.heap
        /\ loggers' = Append([loggers EXCEPT ![l].fields = r.slice], Derived(l, r.slice, xs))
  /\ mu' = Append(mu, "free")
  /\ UNCHANGED <<globalLogger, th, sink, stdlog, nCalls, exited, exitCode, httpvars>>

\* l.WithField(key, value)
WithField(t, l, key) ==
  /\ Running /\ th[t].pc = "idle"
  /\ l \in LoggerIds
  /\ LET xs == WithFieldsOf(<<key>>, Len(loggers) + 1)
         r == GoAppend(heap, loggers[l].fields, xs)
     IN /\ heap' = r.heap
        /\ loggers' = Append(loggers, Derived(l, r.slice, xs))
  /\ mu' = Append(mu, "free")
  /\ UNCHANGED <<globalLogger, th, sink, stdlog, nCalls, exited, exitCode, httpvars>>

\* l.WithFields(fields...)
WithFields(t, l, keys) ==
  /\ Running /\ th[t].pc = "idle"
  /\ l \in LoggerIds
  /\ LET xs == WithFieldsOf(keys, Len(loggers) + 1)
         r == GoAppend(heap, loggers[l].fields, xs)
     IN /\ heap' = r.heap
        /\ loggers' = Append(loggers, Derived(l, r.slice, xs))
  /\ mu' = Append(mu, "free")
  /\ UNCHANGED <<globalLogger, th, sink, stdlog, nCalls, exited, exitCode, httpvars>>

\* SetGlobalLogger(logger)
SetGlobalLogger(t, l) ==
  /\ Running /\ th[t].pc = "idle"
  /\ l \in LoggerIds
  /\ globalLogger' = l
  /\ UNCHANGED <<loggers, heap, mu, th, sink, stdlog, nCalls, exited, exitCode, httpvars>>

\* GetGlobalLogger()
GetGlobalLogger == globalLogger

\* Package-level WithField / WithFields: forwarded to the global logger.
PkgWithField(t, key) == WithField(t, GetGlobalLogger, key)
PkgWithFields(t, keys) == WithFields(t, GetGlobalLogger, keys)

\* ---------------------------------------------------------- logging calls
\* The gate as it would be with a strict comparison.
GateStrict(l, level) == loggers[l].level < level

\* The gate of Debug / Info / Warn / Error: l.level <= the method's level.
Gate(l, level) == loggers[l].level <= level

\* A goroutine enters a level method of logger l, called from `stack`, with
\* call-site keys `keys`; `passes` says whether the method goes on to l.log.
Enter(t, l, level, keys, stack, passes) ==
  /\ Running /\ th[t].pc = "idle"
  /\ l \in LoggerIds
  /\ nCalls' = nCalls + 1
  /\ th' = [th EXCEPT ![t] =
              [Idle EXCEPT !.pc = IF passes THEN "lock" ELSE "ret",
                           !.recv = l, !.level = level,
                           !.cf = CallFieldsOf(keys, nCalls + 1),
                           !.stack = Append(stack, MethodFrame(level)),
                           !.id = nCalls + 1]]
  /\ UNCHANGED <<loggers, heap, mu, globalLogger, sink, stdlog, exited, exitCode, httpvars>>

Debug(t, l, keys, stack) == Enter(t, l, DebugLevel, keys, stack, Gate(l, DebugLevel))
Info(t, l, keys, stack)  == Enter(t, l, InfoLevel, keys, stack, Gate(l, InfoLevel))
Warn(t, l, keys, stack)  == Enter(t, l, WarnLevel, keys, stack, Gate(l, WarnLevel))
Error(t, l, keys, stack) == Enter(t, l, ErrorLevel, keys, stack, Gate(l, ErrorLevel))

\* Fatal as it would be if it were gated like the other levels.
FatalGated(t, l, keys, stack) ==
  Enter(t, l, FatalLevel, keys, stack, Gate(l, FatalLevel))

\* Fatal calls l.log unconditionally.
Fatal(t, l, keys, stack) == Enter(t, l, FatalLevel, keys, stack, TRUE)

\* The package-level functions add their own frame and forward to the
\* global logger.
PkgStack(line, fn) == Append(UserStack, Frame(LoggerFile, line, <<"logger", fn>>))
PkgDebug(t, keys) == Debug(t, GetGlobalLogger, keys, PkgStack("211", "Debug"))
PkgInfo(t, keys)  == Info(t, GetGlobalLogger, keys, PkgStack("215", "Info"))
PkgWarn(t, keys)  == Warn(t, GetGlobalLogger, keys, PkgStack("219", "Warn"))
PkgError(t, keys) == Error(t, GetGlobalLogger, keys, PkgStack("223", "Error"))
PkgFatal(t, keys) == Fatal(t, GetGlobalLogger, keys, PkgStack("227", "Fatal"))

\* ------------------------------------------------------ zapLogger.log
\* Lock as it would be if it did not wait for the holder.
LockNoWait(t) ==
  /\ Running /\ th[t].pc = "lock"
  /\ mu' = [mu EXCEPT ![th[t].recv] = t]
  /\ th' = [th EXCEPT ![t].pc = "append"]
  /\ UNCHANGED <<loggers, heap, globalLogger, sink, stdlog, nCalls, exited, exitCode, httpvars>>

\* l.mu.Lock()
Lock(t) ==
  /\ Running /\ th[t].pc = "lock"
  /\ mu[th[t].recv] = "free"
  /\ mu' = [mu EXCEPT ![th[t].recv] = t]
  /\ th' = [th EXCEPT ![t].pc = "append"]
  /\ UNCHANGED <<loggers, heap, globalLogger, sink, stdlog, nCalls, exited, exitCode, httpvars>>

\* allFields := append(l.fields, fields...).  The element writes of one
\* append are taken together, as are the element reads of one formatting;
\* goroutines on different loggers interleave between them unsynchronized.
AppendAll(t) ==
  /\ Running /\ th[t].pc = "append"
  /\ LET r == GoAppend(heap, loggers[th[t].recv].fields, th[t].cf)
     IN /\ heap' = r.heap
        /\ th' = [th EXCEPT ![t].all = r.slice, ![t].pc = "format"]
  /\ UNCHANGED <<loggers, mu, globalLogger, sink, stdlog, nCalls, exited, exitCode, httpvars>>

\* runtime.Caller(skip) seen from inside log: skip 0 is log's own frame.
RuntimeCaller(stack, skip) ==
  IF skip >= 0 /\ skip < Len(stack)
  THEN [ok |-> TRUE, frame |-> stack[Len(stack) - skip]]
  ELSE [ok |-> FALSE, frame |-> LogFrame]

\* strings.LastIndexByte(funcName, '.') + 1 onwards; filepath.Base(file).
ShortName(fn) == fn[Len(fn)]
Base(file) == file[Len(file)]

\* The caller of the line: "" unless capture is on and the walk succeeds.
CallerOf(l, stack) ==
  IF loggers[l].caller
  THEN LET c == RuntimeCaller(stack, loggers[l].callerSkip)
       IN IF c.ok
          THEN [file |-> Base(c.frame.file), line |-> c.frame.line,
                fn |-> ShortName(c.frame.fn)]
          ELSE NoCaller
  ELSE NoCaller

\* The tokens after the message: one key=value per element of allFields, in
\* order, then caller=... when there is a caller.
FieldTokens(all, caller) ==
  [i \in 1..Len(all) |-> [Key |-> all[i].Key, Value |-> all[i].Value, caller |-> NoCaller]]
  \o (IF caller # NoCaller
      THEN <<[Key |-> "caller", Value |-> ZeroField.Value, caller |-> caller]>>
      ELSE <<>>)

\* The caller lookup and the formatting of logLine.
Format(t) ==
  /\ Running /\ th[t].pc = "format"
  /\ LET l == th[t].recv
         caller == CallerOf(l, Append(th[t].stack, LogFrame))
         line == [level |-> levelNames[th[t].level], msg |-> "m",
                  tokens |-> FieldTokens(View(heap, th[t].all), caller)]
     IN th' = [th EXCEPT ![t].line = line, ![t].pc = "write"]
  /\ UNCHANGED <<loggers, heap, mu, globalLogger, sink, stdlog, nCalls, exited, exitCode, httpvars>>

\* The goroutines inside a Write on writer w.
Writing(w) == {u \in Threads : th[u].pc = "writing" /\ loggers[th[u].recv].output = w}

\* io.WriteString(l.output, logLine) begins.  Two writes in progress on one
\* writer at once may interleave their bytes.
WriteStart(t) ==
  /\ Running /\ th[t].pc = "write"
  /\ LET others == Writing(loggers[th[t].recv].output)
     IN th' = [u \in Threads |->
                 IF u = t THEN [th[u] EXCEPT !.pc = "writing", !.torn = (others # {})]
                 ELSE IF u \in others THEN [th[u] EXCEPT !.torn = TRUE]
                 ELSE th[u]]
  /\ UNCHANGED <<loggers, heap, mu, globalLogger, sink, stdlog, nCalls, exited, exitCode, httpvars>>

\* The write returns without error: the line is in the sink.
WriteOk(t) ==
  /\ Running /\ th[t].pc = "writing"
  /\ sink' = [sink EXCEPT ![loggers[th[t].recv].output] =
                Append(@, [id |-> th[t].id, torn |-> th[t].torn])]
  /\ th' = [th EXCEPT ![t].pc = "unlock", ![t].tries = @ + 1]
  /\ UNCHANGED <<loggers, heap, mu, globalLogger, stdlog, nCalls, exited, exitCode, httpvars>>

\* The write returns an error.
WriteErr(t) ==
  /\ Running /\ th[t].pc = "writing"
  /\ th' = [th EXCEPT ![t].pc = "fallback", ![t].tries = @ + 1, ![t].failed = TRUE]
  /\ UNCHANGED <<loggers, heap, mu, globalLogger, sink, stdlog, nCalls, exited, exitCode, httpvars>>

\* The error branch as it would be if it printed nothing.
FallbackSilent(t) ==
  /\ Running /\ th[t].pc = "fallback"
  /\ th' = [th EXCEPT ![t].pc = "unlock"]
  /\ UNCHANGED <<loggers, heap, mu, globalLogger, sink, stdlog, nCalls, exited, exitCode, httpvars>>

\* log.Print(logLine)
Fallback(t) ==
  /\ Running /\ th[t].pc = "fallback"
  /\ stdlog' = Append(stdlog, [id |-> th[t].id, line |-> th[t].line])
  /\ th' = [th EXCEPT ![t].pc = "unlock"]
  /\ UNCHANGED <<loggers, heap, mu, globalLogger, sink, nCalls, exited, exitCode, httpvars>>

\* defer l.mu.Unlock(), run as log returns; allFields goes out of scope, and
\* with it the array append allocated for it, if it allocated one.
Unlock(t) ==
  /\ Running /\ th[t].pc = "unlock"
  /\ mu' = [mu EXCEPT ![th[t].recv] = "free"]
  /\ heap' = IF th[t].all.arr # 0 /\ th[t].all.arr # loggers[th[t].recv].fields.arr
             THEN [heap EXCEPT ![th[t].all.arr] = <<>>]
             ELSE heap
  /\ th' = [th EXCEPT ![t].pc = IF th[t].level = FatalLevel THEN "exit" ELSE "ret",
                      ![t].all = EmptySlice]
  /\ UNCHANGED <<loggers, globalLogger, sink, stdlog, nCalls, exited, exitCode, httpvars>>

\* os.Exit(1) in Fatal, after log has returned.
Exit(t) ==
  /\ Running /\ th[t].pc = "exit"
  /\ exited' = TRUE
  /\ exitCode' = ExitStatus
  /\ UNCHANGED <<loggers, heap, mu, globalLogger, th, sink, stdlog, nCalls, httpvars>>

\* Debug / Info / Warn / Error return to their caller.
Return(t) ==
  /\ Running /\ th[t].pc = "ret"
  /\ th' = [th EXCEPT ![t] = Idle]
  /\ UNCHANGED <<loggers, heap, mu, globalLogger, sink, stdlog, nCalls, exited, exitCode, httpvars>>

\* ------------------------------------------------- handleConfluenceWebhook
Methods == {"GET", "POST", "PUT"}

\* What a JSON member can be in a request body.
JsonKinds == {"absent", "null", "string", "number", "fraction"}

\* A request body by its structure: empty, not JSON, or one JSON value; an
\* object is given by what its "event" and "page" members are, and a page
\* object by what its "id" and "title" are.
ObjectBody(event, page, id, title) ==
  [top |-> "object", event |-> event, page |-> page, id |-> id, title |-> title]
OtherBody(top) ==
  [top |-> top, event |-> "absent", page |-> "absent", id |-> "absent", title |-> "absent"]

Bodies ==
  {OtherBody(top) : top \in {"empty", "garbage", "null", "array", "string", "number"}}
  \cup {ObjectBody(e, p, "absent", "absent") :
          e \in JsonKinds \ {"fraction"}, p \in {"absent", "null", "string", "array"}}
  \cup {ObjectBody(e, "object", i, t) :
          e \in JsonKinds \ {"fraction"}, i \in JsonKinds, t \in JsonKinds \ {"fraction"}}

\* encoding/json into a string member, an int member, a struct.
IntoString(k) == k \in {"absent", "null", "string"}
IntoInt(k) == k \in {"absent", "null", "number"}
IntoStruct(k) == k \in {"absent", "null", "object"}

\* json.NewDecoder(r.Body).Decode(&webhook): the error, and the struct.
Decode(body) ==
  LET ok == \/ body.top = "null"
            \/ /\ body.top = "object"
               /\ IntoString(body.event)
               /\ IntoStruct(body.page)
               /\ body.page = "object" => IntoInt(body.id) /\ IntoString(body.title)
  IN [err |-> ~ok,
      Event |-> IF ok /\ body.event = "string" THEN "page_created" ELSE "",
      Title |-> IF ok /\ body.page = "object" /\ body.title = "string" THEN "T" ELSE ""]

NoReq == [method |-> "", body |-> OtherBody("empty")]
NoResp == [status |-> 0, body |-> "", bodyRead |-> FALSE, logged |-> ""]

\* The server hands a request to the handler.
Receive(r) ==
  /\ hpc = "idle"
  /\ req' = r
  /\ resp' = NoResp
  /\ hpc' = "method"
  /\ nReqs' = nReqs + 1
  /\ UNCHANGED logvars

\* The method check as it would be if it rejected GET only.
CheckMethodGetOnly ==
  /\ hpc = "method"
  /\ IF req.method = "GET"
     THEN /\ resp' = [resp EXCEPT !.status = StatusMethodNotAllowed,
                                  !.body = "Method not allowed"]
          /\ hpc' = "done"
     ELSE /\ resp' = resp
          /\ hpc' = "decode"
  /\ UNCHANGED <<req, nReqs, logvars>>

\* if r.Method != http.MethodPost { http.Error(..., 405); return }
CheckMethod ==
  /\ hpc = "method"
  /\ IF req.method # "POST"
     THEN /\ resp' = [resp EXCEPT !.status = StatusMethodNotAllowed,
                                  !.body = "Method not allowed"]
          /\ hpc' = "done"
     ELSE /\ resp' = resp
          /\ hpc' = "decode"
  /\ UNCHANGED <<req, nReqs, logvars>>

\* Decode the body; on error http.Error(..., 400) and return; otherwise log
\* the event, WriteHeader(200) and write the confirmation.
DecodeAndRespond ==
  /\ hpc = "decode"
  /\ LET d == Decode(req.body)
     IN resp' = IF d.err
                THEN [resp EXCEPT !.status = StatusBadRequest, !.body = "Invalid payload",
                                  !.bodyRead = TRUE]
                ELSE [resp EXCEPT !.status = StatusOK, !.body = "Webhook processed",
                                  !.bodyRead = TRUE, !.logged = d.Event]
  /\ hpc' = "done"
  /\ UNCHANGED <<req, nReqs, logvars>>

\* The handler has returned; the server waits for the next request.
Finish ==
  /\ hpc = "done"
  /\ hpc' = "idle"
  /\ UNCHANGED <<req, resp, nReqs, logvars>>

\* ------------------------------------------------------------------- Init
\* var globalLogger Logger = New(InfoLevel); nothing logged, nothing handled.
Init ==
  /\ loggers = <<NewStruct(InfoLevel, Stdout)>>
  /\ heap = [a \in HeapIds |-> <<>>]
  /\ mu = <<"free">>
  /\ globalLogger = 1
  /\ th = [t \in Threads |-> Idle]
  /\ sink = [w \in Writers |-> <<>>]
  /\ stdlog = <<>>
  /\ nCalls = 0
  /\ exited = FALSE
  /\ exitCode = 0
  /\ req = NoReq
  /\ resp = NoResp
  /\ hpc = "idle"
  /\ nReqs = 0

\* The statements of zapLogger.log, run by goroutine t, when the write to
\* the output succeeds.
LogStep(t) ==
  \/ Lock(t)
  \/ AppendAll(t)
  \/ Format(t)
  \/ WriteStart(t)
  \/ WriteOk(t)
  \/ Unlock(t)
  \/ Return(t)

\* One goroutine derives loggers from the default logger and logs on them.
Next ==
  \/ \E l \in LoggerIds, k \in Keys : Len(loggers) < MaxLoggers /\ WithField(Main, l, k)
  \/ \E l \in LoggerIds, ks \in WithFieldsArgs :
       Len(loggers) < MaxLoggers /\ WithFields(Main, l, ks)
  \/ \E k \in Keys : Len(loggers) < MaxLoggers /\ PkgWithField(Main, k)
  \/ \E ks \in WithFieldsArgs : Len(loggers) < MaxLoggers /\ PkgWithFields(Main, ks)
  \/ \E l \in LoggerIds, ks \in CallArgs : nCalls < MaxCalls /\ Debug(Main, l, ks, UserStack)
  \/ \E l \in LoggerIds, ks \in CallArgs : nCalls < MaxCalls /\ Info(Main, l, ks, UserStack)
  \/ LogStep(Main)

Spec == Init /\ [][Next]_vars

\* One goroutine creates loggers of every level, replaces the global logger
\* and logs at every level, through the methods and the package functions.
NextLevels ==
  \/ \E level \in NewLevels : Len(loggers) < MaxLevelLoggers /\ New(Main, level)
  \/ \E level \in NewLevels, w \in Writers :
       Len(loggers) < MaxLevelLoggers /\ NewWithWriter(Main, level, w)
  \/ \E l \in LoggerIds : SetGlobalLogger(Main, l)
  \/ \E l \in LoggerIds : Len(loggers) < MaxLevelLoggers /\ WithField(Main, l, "k1")
  \/ \E l \in LoggerIds, ks \in CallArgs : nCalls < MaxLevelCalls /\ Debug(Main, l, ks, UserStack)
  \/ \E l \in LoggerIds, ks \in CallArgs : nCalls < MaxLevelCalls /\ Info(Main, l, ks, UserStack)
  \/ \E l \in LoggerIds, ks \in CallArgs : nCalls < MaxLevelCalls /\ Warn(Main, l, ks, UserStack)
  \/ \E l \in LoggerIds, ks \in CallArgs : nCalls < MaxLevelCalls /\ Error(Main, l, ks, UserStack)
  \/ \E l \in LoggerIds, ks \in CallArgs : nCalls < MaxLevelCalls /\ Fatal(Main, l, ks, UserStack)
  \/ nCalls < MaxLevelCalls /\ PkgDebug(Main, <<>>)
  \/ nCalls < MaxLevelCalls /\ PkgInfo(Main, <<>>)
  \/ nCalls < MaxLevelCalls /\ PkgWarn(Main, <<>>)
  \/ nCalls < MaxLevelCalls /\ PkgError(Main, <<>>)
  \/ nCalls < MaxLevelCalls /\ PkgFatal(Main, <<>>)
  \/ LogStep(Main)
  \/ WriteErr(Main)
  \/ Fallback(Main)
  \/ Exit(Main)

SpecLevels == Init /\ [][NextLevels]_vars

\* Two goroutines derive loggers from the default logger and log on them.
NextConc ==
  \/ \E t \in Threads, l \in LoggerIds :
       Len(loggers) < MaxConcLoggers /\ WithField(t, l, "k1")
  \/ \E t \in Threads, l \in LoggerIds, ks \in CallArgs :
       nCalls < MaxConcCalls /\ Info(t, l, ks, UserStack)
  \/ \E t \in Threads, l \in LoggerIds :
       nCalls < MaxConcCalls /\ Debug(t, l, <<>>, UserStack)
  \/ \E t \in Threads : LogStep(t)

SpecConc == Init /\ [][NextConc]_vars

\* The server handles webhook requests one after another.
NextHttp ==
  \/ \E m \in Methods, b \in Bodies :
       nReqs < MaxRequests /\ Receive([method |-> m, body |-> b])
  \/ CheckMethod
  \/ DecodeAndRespond
  \/ Finish

SpecHttp == Init /\ [][NextHttp]_vars

\* ------------------------------------------------------------- properties
\* Positions inside zapLogger.log, between Lock and the deferred Unlock.
Critical == {"append", "format", "write", "writing", "fallback", "unlock"}
\* Positions at which logLine has been formatted.
Formatted == {"write", "writing", "fallback", "unlock"}

\* The key=value tokens of a line, without the caller token.
FieldPart(line) == SelectSeq(line.tokens, LAMBDA tok : tok.caller = NoCaller)
AsFields(toks) == [i \in 1..Len(toks) |-> [Key |-> toks[i].Key, Value |-> toks[i].Value]]

RECURSIVE Ancestors(_)
Ancestors(d) ==
  IF loggers[d].parent = 0 THEN {}
  ELSE {loggers[d].parent} \cup Ancestors(loggers[d].parent)

\* The number of entries of a sequence that belong to call id.
CountId(seq, id) == Cardinality({i \in 1..Len(seq) : seq[i].id = id})
InSinks(id) == Cardinality({w \in Writers : CountId(sink[w], id) > 0})

\* C1: the fields a derived logger shows are always the fields its base
\* showed when it was derived followed by the fields given at derivation,
\* whatever is derived from or logged on the base and its siblings later.
C1_DerivedFieldsNeverShared ==
  \A d \in LoggerIds :
    loggers[d].parent # 0 => Fields(d) = loggers[d].atDerive

\* A formatted line holds exactly the fields its logger shows followed by the
\* call-site fields, none of them a field given when deriving from it.
C2_LineOfOriginal ==
  \A t \in Threads :
    th[t].pc \in Formatted =>
      /\ AsFields(FieldPart(th[t].line)) = Fields(th[t].recv) \o th[t].cf
      /\ \A i \in 1..Len(th[t].line.tokens) :
           LET v == th[t].line.tokens[i].Value
           IN v.src = "with" => th[t].recv \notin Ancestors(v.id)

C2_DerivationStep(r) ==
  /\ Len(loggers') = Len(loggers) + 1
  /\ loggers'[Len(loggers')].parent = r

\* C2: WithField / WithFields never mutate the receiver: a derivation leaves
\* the receiver's level, output, caller flag, skip depth, lock and the fields
\* it shows as they were, and a line logged on a logger afterwards holds
\* exactly the fields that logger shows followed by the call-site fields,
\* none of them a field added only on a logger derived from it.
C2_ReceiverNotMutated ==
  [][ /\ \A r \in LoggerIds :
           C2_DerivationStep(r) =>
             /\ loggers'[r] = loggers[r]
             /\ View(heap', loggers'[r].fields) = View(heap, loggers[r].fields)
             /\ mu'[r] = mu[r]
      /\ C2_LineOfOriginal' ]_vars

\* C2 witness: a line with a call-site field has been formatted on a logger
\* from which another logger was derived in place (same backing array).
C2_Witness ==
  \E t \in Threads, d \in LoggerIds :
    /\ th[t].pc = "write"
    /\ th[t].cf # <<>>
    /\ loggers[d].parent = th[t].recv
    /\ loggers[d].fields.arr = loggers[th[t].recv].fields.arr
    /\ loggers[d].fields.len > loggers[th[t].recv].fields.len

\* C3: a call at level L on a logger of minimum level M writes one line
\* when L >= M and nothing when L < M, and a derived logger has the minimum
\* level of its base.
C3_LevelGating ==
  /\ \A t \in Threads :
       LET c == th[t]
           M == loggers[c.recv].level
       IN /\ (c.pc \in Critical \cup {"lock"} /\ c.level # FatalLevel) => c.level >= M
          /\ (c.pc = "ret" /\ c.level >= M) =>
               /\ c.tries = 1
               /\ ~c.failed => CountId(sink[loggers[c.recv].output], c.id) = 1
          /\ (c.pc = "ret" /\ c.level < M) =>
               /\ c.tries = 0
               /\ InSinks(c.id) + CountId(stdlog, c.id) = 0
  /\ \A d \in LoggerIds :
       loggers[d].parent # 0 => loggers[d].level = loggers[loggers[d].parent].level

\* C3 witness: an enabled call on a derived logger has returned after
\* writing its line.
C3_Witness ==
  \E t \in Threads :
    /\ th[t].pc = "ret"
    /\ loggers[th[t].recv].parent # 0
    /\ th[t].level = loggers[th[t].recv].level
    /\ CountId(sink[loggers[th[t].recv].output], th[t].id) = 1

\* C4: writes of loggers that share a writer are serialized: no two
\* goroutines are inside a write to the same writer at once, and no line in
\* a writer overlapped another.
C4_SinkSerialized ==
  \A w \in Writers :
    /\ Cardinality(Writing(w)) <= 1
    /\ \A i \in 1..Len(sink[w]) : ~sink[w][i].torn

\* C5: calls on one logger are serialized by its lock: no two goroutines
\* are between Lock and Unlock of the same logger, a goroutine there holds
\* the lock, and every enabled call that has returned put exactly one line
\* in the writer, no line appearing twice.
C5_InstanceSerialized ==
  /\ \A t, u \in Threads :
       (t # u /\ th[t].pc \in Critical /\ th[u].pc \in Critical) => th[t].recv # th[u].recv
  /\ \A t \in Threads : th[t].pc \in Critical => mu[th[t].recv] = t
  /\ \A t \in Threads :
       (th[t].pc = "ret" /\ th[t].tries = 1) =>
         CountId(sink[loggers[th[t].recv].output], th[t].id) = 1
  /\ \A w \in Writers : \A id \in 1..nCalls : CountId(sink[w], id) <= 1
  /\ \A w \in Writers :
       Len(sink[w]) + Cardinality({t \in Threads : th[t].pc \in {"lock"} \cup (Critical \ {"unlock"})
                                                     /\ loggers[th[t].recv].output = w})
         <= nCalls

\* C5 witness: one goroutine is writing a line of a logger while the other
\* waits for the lock of the same logger.
C5_Witness ==
  \E t, u \in Threads :
    /\ t # u
    /\ th[t].recv = th[u].recv
    /\ th[t].pc = "writing"
    /\ th[u].pc = "lock"

\* A Fatal call never returns to its caller; it reaches os.Exit only after
\* its one write; the process exits with status 1, and only from there.
C6_FatalState ==
  /\ \A t \in Threads :
       /\ (th[t].pc # "idle" /\ th[t].level = FatalLevel) => th[t].pc # "ret"
       /\ th[t].pc = "exit" =>
            /\ th[t].level = FatalLevel
            /\ th[t].tries = 1
            /\ InSinks(th[t].id) + CountId(stdlog, th[t].id) >= 1
  /\ exited => /\ exitCode = ExitStatus
               /\ \E t \in Threads : th[t].pc = "exit"
  /\ ~exited => exitCode = 0

\* C6: Fatal writes its line whatever the logger's minimum level and then
\* exits with status 1: a Fatal call never returns to its caller, the
\* process exits only after the line is out, and nothing runs after the
\* exit.
C6_FatalWritesThenExits == [][ ~exited /\ C6_FatalState' ]_vars

\* C6 witness: the process has exited after a Fatal call on a logger whose
\* minimum level is above every level.
C6_Witness ==
  /\ exited
  /\ \E t \in Threads : th[t].pc = "exit" /\ loggers[th[t].recv].level > FatalLevel

\* C7: when the write fails, the same line goes exactly once to the std
\* logger, the lock is released, Debug / Info / Warn / Error return to the
\* caller and Fatal goes on to exit with status 1.
C7_WriteFailureContained ==
  \A t \in Threads :
    LET c == th[t]
    IN /\ (c.failed /\ c.pc \in {"unlock", "ret", "exit"}) =>
            /\ CountId(stdlog, c.id) = 1
            /\ \A i \in 1..Len(stdlog) : stdlog[i].id = c.id => stdlog[i].line = c.line
            /\ c.tries = 1
       /\ (c.failed /\ c.pc \in {"ret", "exit"}) =>
            /\ mu[c.recv] = "free"
            /\ c.pc = (IF c.level = FatalLevel THEN "exit" ELSE "ret")
       /\ (c.failed /\ exited) => exitCode = ExitStatus
       /\ c.failed => c.pc \in {"fallback", "unlock", "ret", "exit"}

\* C7 witness: the process has exited after a Fatal call whose write failed.
C7_Witness ==
  /\ exited
  /\ \E t \in Threads : th[t].failed /\ th[t].pc = "exit" /\ CountId(stdlog, th[t].id) = 1

\* The tokens a line must hold for logger l and call-site fields cf: the
\* fields the derivations gave, in order, then cf, then the caller.
C8_Expected(l, cf, caller) == FieldTokens(loggers[l].chain \o cf, caller)

\* C8: every line holds the logger's accumulated fields in derivation
\* order, then the call-site fields in the given order, then the caller.
C8_FieldOrder ==
  \A t \in Threads :
    th[t].pc \in Formatted =>
      /\ th[t].line.tokens =
           C8_Expected(th[t].recv, th[t].cf, th[t].line.tokens[Len(th[t].line.tokens)].caller)
      /\ th[t].line.tokens[Len(th[t].line.tokens)].Key = "caller"

\* C9: the webhook handler answers 405 to every non-POST request without
\* reading the body, 400 to a POST whose body does not decode, 200 with the
\* confirmation to a POST whose body decodes, and never ends the process.
C9_WebhookOutcome ==
  /\ ~exited
  /\ hpc = "done" =>
       /\ req.method # "POST" =>
            /\ resp.status = StatusMethodNotAllowed
            /\ ~resp.bodyRead
       /\ (req.method = "POST" /\ Decode(req.body).err) =>
            resp.status = StatusBadRequest /\ resp.body = "Invalid payload"
       /\ (req.method = "POST" /\ ~Decode(req.body).err) =>
            resp.status = StatusOK /\ resp.body = "Webhook processed"
       /\ (req.method = "POST" /\ req.body.top \in {"empty", "garbage"}) =>
            resp.status = StatusBadRequest
       /\ (req.method = "POST" /\ req.body = ObjectBody("string", "object", "number", "string")) =>
            resp.status = StatusOK
       /\ resp.status \in {StatusMethodNotAllowed, StatusBadRequest, StatusOK}

\* C9 witness: a GET with a body that is not JSON has been answered 405.
C9_Witness ==
  /\ hpc = "done"
  /\ req.method = "GET"
  /\ req.body.top = "garbage"
  /\ resp.status = StatusMethodNotAllowed

\* C10: the caller of every line is the frame that made the public logging
\* call, through a method or through a package-level function, never a
\* frame of the logger's own file.
C10_CallerIsCallSite ==
  \A t \in Threads :
    th[t].pc \in Formatted =>
      LET last == th[t].line.tokens[Len(th[t].line.tokens)]
          user == UserStack[Len(UserStack)]
      IN /\ last.Key = "caller"
         /\ last.caller.file # Base(LoggerFile)
         /\ last.caller = [file |-> Base(user.file), line |-> user.line,
                           fn |-> ShortName(user.fn)]

====
